---- MODULE Spec2Model ----
(***************************************************************************)
(* The Hypothetical Machine (hypo): 50 words of memory, the registers PC,  *)
(* AC and MQ, a CPU state, and the operations the BIOS menu offers on it   *)
(* (load a program, step, run, reset).  Definitions follow machine.go.    *)
(***************************************************************************)
EXTENDS Integers, Sequences, FiniteSets, TLC

VARIABLES mem, pc, ac, mq, state, running, last, nops

vars == <<mem, pc, ac, mq, state, running, last, nops>>

(***************************************************************************)
(* Program constants.                                                      *)
(***************************************************************************)
memSize == 50

capHi == 99999

capLo == -99999

CPUok == 0

CPUbadinst == 1

CPUbadaddr == 2

CPUdivzero == 3

CPUhalt == 4

CPUStates == {CPUok, CPUbadinst, CPUbadaddr, CPUdivzero, CPUhalt}

\* The error values LoadProgram returns; "nil" is success.
loadErrBadFile == "loadErrBadFile"

loadErrBadLine == "loadErrBadLine"

loadErrBadAddr == "loadErrBadAddr"

loadErrBadValue == "loadErrBadValue"

(***************************************************************************)
(* Go integers.  int is 64 bits wide: with operands in [-99999, 99999] no  *)
(* sum, difference or product leaves its range, so no arithmetic of the    *)
(* machine wraps.  The model's integers are narrower than Go's: a value    *)
(* whose magnitude exceeds Huge is represented by +-Huge.  Every consumer  *)
(* of such a value (boundsCap, the address range test) only compares it    *)
(* with numbers far below Huge, so the representation decides them as the  *)
(* exact value would.                                                      *)
(***************************************************************************)
Huge == 1000 * 1000 * 1000

Abs(i) == IF i < 0 THEN -i ELSE i

Sign(i) == IF i < 0 THEN -1 ELSE IF i > 0 THEN 1 ELSE 0

\* a * b
MulInt(a, b) ==
  IF a = 0 \/ b = 0 THEN 0
  ELSE IF Abs(a) > Huge \div Abs(b) THEN Sign(a) * Sign(b) * Huge
  ELSE a * b

\* a / b of Go: the quotient truncated toward zero (b # 0).
QuoInt(a, b) == Sign(a) * Sign(b) * (Abs(a) \div Abs(b))

\* a % b of Go: the remainder, zero or with the sign of a (b # 0).
RemInt(a, b) == a - b * QuoInt(a, b)

(***************************************************************************)
(* inBounds and boundsCap.                                                 *)
(***************************************************************************)
inBounds(addr) == addr >= 0 /\ addr < memSize

\* boundsCap without its test against the floor.
boundsCapNoFloor(i) == IF i > capHi THEN capHi ELSE i

boundsCap(i) ==
  IF i > capHi THEN capHi
  ELSE IF i < capLo THEN capLo
  ELSE i

(***************************************************************************)
(* The opcode table and the decoder.                                       *)
(***************************************************************************)
ops ==
  (0 :> "HLT") @@ (1 :> "JEQ") @@ (2 :> "JGT") @@ (3 :> "JLT") @@
  (5 :> "JMP") @@ (6 :> "JLE") @@ (7 :> "JNE") @@
  (10 :> "LAC") @@ (11 :> "PAC") @@ (12 :> "LMQ") @@ (13 :> "PMQ") @@
  (20 :> "ADD") @@ (21 :> "SUB") @@ (22 :> "MUL") @@ (23 :> "DIV") @@
  (30 :> "GET") @@ (31 :> "PUT")

Instruction(o, a) == [op |-> o, addr |-> a]

\* getInstruction testing the target before the opcode.
getInstructionTargetFirst(m, addr) ==
  IF ~inBounds(addr) THEN [inst |-> Instruction("UNK", 0), cs |-> CPUbadinst]
  ELSE LET d == m[addr]
           op == QuoInt(d, 1000)
           a == RemInt(d, 1000)
       IN IF ~inBounds(a)
            THEN [inst |-> Instruction(IF op \in DOMAIN ops THEN ops[op] ELSE "UNK", a),
                  cs |-> CPUbadaddr]
          ELSE IF op \notin DOMAIN ops
            THEN [inst |-> Instruction("UNK", a), cs |-> CPUbadinst]
          ELSE [inst |-> Instruction(ops[op], a), cs |-> CPUok]

\* getInstruction reporting no target with an unknown opcode.
getInstructionZeroTarget(m, addr) ==
  IF ~inBounds(addr) THEN [inst |-> Instruction("UNK", 0), cs |-> CPUbadinst]
  ELSE LET d == m[addr]
           op == QuoInt(d, 1000)
           a == RemInt(d, 1000)
       IN IF op \notin DOMAIN ops
            THEN [inst |-> Instruction("UNK", 0), cs |-> CPUbadinst]
          ELSE IF ~inBounds(a)
            THEN [inst |-> Instruction(ops[op], a), cs |-> CPUbadaddr]
          ELSE [inst |-> Instruction(ops[op], a), cs |-> CPUok]

\* getInstruction taking the target as the non-negative remainder.
getInstructionFloorMod(m, addr) ==
  IF ~inBounds(addr) THEN [inst |-> Instruction("UNK", 0), cs |-> CPUbadinst]
  ELSE LET d == m[addr]
           op == QuoInt(d, 1000)
           a == d % 1000
       IN IF op \notin DOMAIN ops
            THEN [inst |-> Instruction("UNK", a), cs |-> CPUbadinst]
          ELSE IF ~inBounds(a)
            THEN [inst |-> Instruction(ops[op], a), cs |-> CPUbadaddr]
          ELSE [inst |-> Instruction(ops[op], a), cs |-> CPUok]

\* getInstruction taking the target without its sign.
getInstructionAbsTarget(m, addr) ==
  IF ~inBounds(addr) THEN [inst |-> Instruction("UNK", 0), cs |-> CPUbadinst]
  ELSE LET d == m[addr]
           op == QuoInt(d, 1000)
           a == Abs(RemInt(d, 1000))
       IN IF op \notin DOMAIN ops
            THEN [inst |-> Instruction("UNK", a), cs |-> CPUbadinst]
          ELSE IF ~inBounds(a)
            THEN [inst |-> Instruction(ops[op], a), cs |-> CPUbadaddr]
          ELSE [inst |-> Instruction(ops[op], a), cs |-> CPUok]

\* getInstruction on memory m: the instruction and the CPU state it yields.
getInstruction(m, addr) ==
  IF ~inBounds(addr) THEN [inst |-> Instruction("UNK", 0), cs |-> CPUbadinst]
  ELSE LET d == m[addr]
           op == QuoInt(d, 1000)
           a == RemInt(d, 1000)
       IN IF op \notin DOMAIN ops
            THEN [inst |-> Instruction("UNK", a), cs |-> CPUbadinst]
          ELSE IF ~inBounds(a)
            THEN [inst |-> Instruction(ops[op], a), cs |-> CPUbadaddr]
          ELSE [inst |-> Instruction(ops[op], a), cs |-> CPUok]

(***************************************************************************)
(* The program text.  A line is the sequence of its characters, as the     *)
(* scanner hands it to the loader (without the line terminator).           *)
(***************************************************************************)
Digit == {"0", "1", "2", "3", "4", "5", "6", "7", "8", "9"}

\* \s of the regular expression.
Space == {" ", "\t", "\f", "\r"}

DigitVal ==
  ("0" :> 0) @@ ("1" :> 1) @@ ("2" :> 2) @@ ("3" :> 3) @@ ("4" :> 4) @@
  ("5" :> 5) @@ ("6" :> 6) @@ ("7" :> 7) @@ ("8" :> 8) @@ ("9" :> 9)

\* The first position at or after i of s that holds no character of S.
RECURSIVE Span(_, _, _)
Span(s, i, S) == IF i <= Len(s) /\ s[i] \in S THEN Span(s, i + 1, S) ELSE i

\* MatchLine without the end of the expression, ^(\d+):\s*(-*\d+), which lets
\* anything follow the digits of the value.
MatchLineUnanchored(line) ==
  LET e1 == Span(line, 1, Digit)
      b2 == Span(line, e1 + 1, Space)
      m2 == Span(line, b2, {"-"})
      e2 == Span(line, m2, Digit)
      nomatch == [ok |-> FALSE, a |-> <<>>, v |-> <<>>]
  IN IF e1 = 1 \/ e1 > Len(line) THEN nomatch
     ELSE IF line[e1] # ":" THEN nomatch
     ELSE IF e2 = m2 THEN nomatch
     ELSE [ok |-> TRUE, a |-> SubSeq(line, 1, e1 - 1), v |-> SubSeq(line, b2, e2 - 1)]

\* MatchLine with at most one minus sign in the value, ^(\d+):\s*(-?\d+)(\s.*)*$.
MatchLineOneMinus(line) ==
  LET e1 == Span(line, 1, Digit)
      b2 == Span(line, e1 + 1, Space)
      m2 == IF b2 <= Len(line) /\ line[b2] = "-" THEN b2 + 1 ELSE b2
      e2 == Span(line, m2, Digit)
      nomatch == [ok |-> FALSE, a |-> <<>>, v |-> <<>>]
  IN IF e1 = 1 \/ e1 > Len(line) THEN nomatch
     ELSE IF line[e1] # ":" THEN nomatch
     ELSE IF e2 = m2 THEN nomatch
     ELSE IF e2 <= Len(line) /\ line[e2] \notin Space THEN nomatch
     ELSE [ok |-> TRUE, a |-> SubSeq(line, 1, e1 - 1), v |-> SubSeq(line, b2, e2 - 1)]

\* FindStringSubmatch of ^(\d+):\s*(-*\d+)(\s.*)*$ on a line: whether it
\* matches, and the submatches 1 (address token) and 2 (value token).
MatchLine(line) ==
  LET e1 == Span(line, 1, Digit)
      b2 == Span(line, e1 + 1, Space)
      m2 == Span(line, b2, {"-"})
      e2 == Span(line, m2, Digit)
      nomatch == [ok |-> FALSE, a |-> <<>>, v |-> <<>>]
  IN IF e1 = 1 \/ e1 > Len(line) THEN nomatch
     ELSE IF line[e1] # ":" THEN nomatch
     ELSE IF e2 = m2 THEN nomatch
     ELSE IF e2 <= Len(line) /\ line[e2] \notin Space THEN nomatch
     ELSE [ok |-> TRUE, a |-> SubSeq(line, 1, e1 - 1), v |-> SubSeq(line, b2, e2 - 1)]

\* The value of a digit string, computed as n = n*10 + digit.
RECURSIVE DecVal(_, _)
DecVal(s, n) ==
  IF s = <<>> THEN n
  ELSE DecVal(Tail(s), IF n >= Huge \div 10 THEN Huge ELSE n * 10 + DigitVal[Head(s)])

\* The digits of the largest int, 9223372036854775807 (2^63 - 1), and of the
\* magnitude of the smallest.
MaxIntDigits ==
  <<"9", "2", "2", "3", "3", "7", "2", "0", "3", "6", "8", "5", "4", "7", "7", "5", "8", "0", "7">>

MinIntDigits ==
  <<"9", "2", "2", "3", "3", "7", "2", "0", "3", "6", "8", "5", "4", "7", "7", "5", "8", "0", "8">>

\* s > t for digit strings of the same length.
DigitsGreater(s, t) ==
  \E i \in 1..Len(s) :
    /\ \A j \in 1..(i - 1) : s[j] = t[j]
    /\ DigitVal[s[i]] > DigitVal[t[i]]

\* Whether the digit string s (negated when neg) is outside the range of int.
OutOfRange(s, neg) ==
  LET z == Span(s, 1, {"0"})
      sig == SubSeq(s, z, Len(s))
      lim == IF neg THEN MinIntDigits ELSE MaxIntDigits
  IN \/ Len(sig) > Len(lim)
     \/ Len(sig) = Len(lim) /\ DigitsGreater(sig, lim)

\* strconv.Atoi: an optional sign and decimal digits; an error for anything
\* else and for a value outside the range of int.
Atoi(tok) ==
  LET signed == tok # <<>> /\ tok[1] \in {"-", "+"}
      neg == tok # <<>> /\ tok[1] = "-"
      body == IF signed THEN Tail(tok) ELSE tok
  IN IF body = <<>> \/ \E i \in 1..Len(body) : body[i] \notin Digit
       THEN [err |-> TRUE, n |-> 0]
     ELSE IF OutOfRange(body, neg) THEN [err |-> TRUE, n |-> 0]
     ELSE [err |-> FALSE, n |-> IF neg THEN -DecVal(body, 0) ELSE DecVal(body, 0)]

ZeroMem == [a \in 0..(memSize - 1) |-> 0]

\* The loop of LoadProgram from line k on, on memory m: the memory and the
\* error it ends with, and the number of lines stored.  readErr is whether
\* the scanner ends with an error instead of the end of the input.
RECURSIVE LoadLines(_, _, _, _)
LoadLines(m, lines, k, readErr) ==
  IF k > Len(lines)
    THEN [mem |-> m, err |-> IF readErr THEN loadErrBadFile ELSE "nil", stored |-> k - 1]
  ELSE LET mt == MatchLine(lines[k])
           a == Atoi(mt.a)
           v == Atoi(mt.v)
       IN IF ~mt.ok THEN [mem |-> m, err |-> loadErrBadLine, stored |-> k - 1]
          ELSE IF a.err THEN [mem |-> m, err |-> loadErrBadAddr, stored |-> k - 1]
          ELSE IF a.n < 0 \/ a.n >= memSize
            THEN [mem |-> m, err |-> loadErrBadAddr, stored |-> k - 1]
          ELSE IF v.err THEN [mem |-> m, err |-> loadErrBadValue, stored |-> k - 1]
          ELSE LoadLines([m EXCEPT ![a.n] = boundsCap(v.n)], lines, k + 1, readErr)

(***************************************************************************)
(* The inputs given to LoadProgram: the lines the scanner yields, and      *)
(* whether the underlying reader fails after them.                         *)
(***************************************************************************)
\* The sample program of the README: print 99103 forever.
\*   0: 0
\*   0: 31002 // PUT
\*   1: 5000  // GOTO 0
\*   2: 99103
ProgSample ==
  [lines |-> <<
     <<"0", ":", " ", "0">>,
     <<"0", ":", " ", "3", "1", "0", "0", "2", " ", "/", "/", " ", "P", "U", "T">>,
     <<"1", ":", " ", "5", "0", "0", "0", " ", " ", "/", "/", " ", "G", "O", "T", "O", " ", "0">>,
     <<"2", ":", " ", "9", "9", "1", "0", "3">>
   >>,
   readErr |-> FALSE]

\* ADD and SUB, in range and saturating at both ends.
\*   0: 10010
\*   1: 20010
\*   2: 21011
\*   3: 21010
\*   4: 21010
\*   5: 20012
\*   6: 0
\*   10: 60000
\*   11: 99999
\*   12: 7
ProgAddSub ==
  [lines |-> <<
     <<"0", ":", " ", "1", "0", "0", "1", "0">>,
     <<"1", ":", " ", "2", "0", "0", "1", "0">>,
     <<"2", ":", " ", "2", "1", "0", "1", "1">>,
     <<"3", ":", " ", "2", "1", "0", "1", "0">>,
     <<"4", ":", " ", "2", "1", "0", "1", "0">>,
     <<"5", ":", " ", "2", "0", "0", "1", "2">>,
     <<"6", ":", " ", "0">>,
     <<"1", "0", ":", " ", "6", "0", "0", "0", "0">>,
     <<"1", "1", ":", " ", "9", "9", "9", "9", "9">>,
     <<"1", "2", ":", " ", "7">>
   >>,
   readErr |-> FALSE]

\* MUL in range and saturating, DIV with every combination of signs, DIV by zero.
\*   0: 12030
\*   1: 22031
\*   2: 12032
\*   3: 22031
\*   4: 22033
\*   5: 22034
\*   6: 22033
\*   7: 22034
\*   8: 12035
\*   9: 23036
\*   10: 12035
\*   11: 23037
\*   12: 12038
\*   13: 23036
\*   14: 12038
\*   15: 23037
\*   16: 23039
\*   30: 3
\*   31: 4
\*   32: 33333
\*   33: -4
\*   34: 99999
\*   35: 12
\*   36: 9
\*   37: -9
\*   38: -12
\*   39: 0
ProgMulDiv ==
  [lines |-> <<
     <<"0", ":", " ", "1", "2", "0", "3", "0">>,
     <<"1", ":", " ", "2", "2", "0", "3", "1">>,
     <<"2", ":", " ", "1", "2", "0", "3", "2">>,
     <<"3", ":", " ", "2", "2", "0", "3", "1">>,
     <<"4", ":", " ", "2", "2", "0", "3", "3">>,
     <<"5", ":", " ", "2", "2", "0", "3", "4">>,
     <<"6", ":", " ", "2", "2", "0", "3", "3">>,
     <<"7", ":", " ", "2", "2", "0", "3", "4">>,
     <<"8", ":", " ", "1", "2", "0", "3", "5">>,
     <<"9", ":", " ", "2", "3", "0", "3", "6">>,
     <<"1", "0", ":", " ", "1", "2", "0", "3", "5">>,
     <<"1", "1", ":", " ", "2", "3", "0", "3", "7">>,
     <<"1", "2", ":", " ", "1", "2", "0", "3", "8">>,
     <<"1", "3", ":", " ", "2", "3", "0", "3", "6">>,
     <<"1", "4", ":", " ", "1", "2", "0", "3", "8">>,
     <<"1", "5", ":", " ", "2", "3", "0", "3", "7">>,
     <<"1", "6", ":", " ", "2", "3", "0", "3", "9">>,
     <<"3", "0", ":", " ", "3">>,
     <<"3", "1", ":", " ", "4">>,
     <<"3", "2", ":", " ", "3", "3", "3", "3", "3">>,
     <<"3", "3", ":", " ", "-", "4">>,
     <<"3", "4", ":", " ", "9", "9", "9", "9", "9">>,
     <<"3", "5", ":", " ", "1", "2">>,
     <<"3", "6", ":", " ", "9">>,
     <<"3", "7", ":", " ", "-", "9">>,
     <<"3", "8", ":", " ", "-", "1", "2">>,
     <<"3", "9", ":", " ", "0">>
   >>,
   readErr |-> FALSE]

\* Every jump with AC zero, positive and negative, ending by running off the end of memory.
\*   0: 1002
\*   2: 2001
\*   3: 3001
\*   4: 6006
\*   6: 7001
\*   7: 10040
\*   8: 1001
\*   9: 2011
\*   11: 3001
\*   12: 6001
\*   13: 7015
\*   15: 10041
\*   16: 2001
\*   17: 3019
\*   19: 6022
\*   22: 7024
\*   24: 1001
\*   25: 5049
\*   49: 31040
\*   40: 5
\*   41: -5
ProgJumps ==
  [lines |-> <<
     <<"0", ":", " ", "1", "0", "0", "2">>,
     <<"2", ":", " ", "2", "0", "0", "1">>,
     <<"3", ":", " ", "3", "0", "0", "1">>,
     <<"4", ":", " ", "6", "0", "0", "6">>,
     <<"6", ":", " ", "7", "0", "0", "1">>,
     <<"7", ":", " ", "1", "0", "0", "4", "0">>,
     <<"8", ":", " ", "1", "0", "0", "1">>,
     <<"9", ":", " ", "2", "0", "1", "1">>,
     <<"1", "1", ":", " ", "3", "0", "0", "1">>,
     <<"1", "2", ":", " ", "6", "0", "0", "1">>,
     <<"1", "3", ":", " ", "7", "0", "1", "5">>,
     <<"1", "5", ":", " ", "1", "0", "0", "4", "1">>,
     <<"1", "6", ":", " ", "2", "0", "0", "1">>,
     <<"1", "7", ":", " ", "3", "0", "1", "9">>,
     <<"1", "9", ":", " ", "6", "0", "2", "2">>,
     <<"2", "2", ":", " ", "7", "0", "2", "4">>,
     <<"2", "4", ":", " ", "1", "0", "0", "1">>,
     <<"2", "5", ":", " ", "5", "0", "4", "9">>,
     <<"4", "9", ":", " ", "3", "1", "0", "4", "0">>,
     <<"4", "0", ":", " ", "5">>,
     <<"4", "1", ":", " ", "-", "5">>
   >>,
   readErr |-> FALSE]

\* GET, the register loads and stores, PUT.
\*   0: 30010
\*   1: 10010
\*   2: 11011
\*   3: 12010
\*   4: 13012
\*   5: 31011
\*   6: 0
ProgIO ==
  [lines |-> <<
     <<"0", ":", " ", "3", "0", "0", "1", "0">>,
     <<"1", ":", " ", "1", "0", "0", "1", "0">>,
     <<"2", ":", " ", "1", "1", "0", "1", "1">>,
     <<"3", ":", " ", "1", "2", "0", "1", "0">>,
     <<"4", ":", " ", "1", "3", "0", "1", "2">>,
     <<"5", ":", " ", "3", "1", "0", "1", "1">>,
     <<"6", ":", " ", "0">>
   >>,
   readErr |-> FALSE]

\* Instructions whose target is their own address.
\*   0: 10000
\*   1: 11001
\*   2: 12002
\*   3: 13003
\*   4: 30004
\*   5: 31005
ProgSelf ==
  [lines |-> <<
     <<"0", ":", " ", "1", "0", "0", "0", "0">>,
     <<"1", ":", " ", "1", "1", "0", "0", "1">>,
     <<"2", ":", " ", "1", "2", "0", "0", "2">>,
     <<"3", ":", " ", "1", "3", "0", "0", "3">>,
     <<"4", ":", " ", "3", "0", "0", "0", "4">>,
     <<"5", ":", " ", "3", "1", "0", "0", "5">>
   >>,
   readErr |-> FALSE]

\* Words that are no valid instruction: unassigned opcodes, targets out of range, negative words.
\*   0: 32005
\*   1: 10050
\*   2: -5
\*   3: -1000
\*   4: 99103
\*   5: 4000
\*   6: 31999
\*   7: -23001
\*   8: -10
ProgBadOp ==
  [lines |-> <<
     <<"0", ":", " ", "3", "2", "0", "0", "5">>,
     <<"1", ":", " ", "1", "0", "0", "5", "0">>,
     <<"2", ":", " ", "-", "5">>,
     <<"3", ":", " ", "-", "1", "0", "0", "0">>,
     <<"4", ":", " ", "9", "9", "1", "0", "3">>,
     <<"5", ":", " ", "4", "0", "0", "0">>,
     <<"6", ":", " ", "3", "1", "9", "9", "9">>,
     <<"7", ":", " ", "-", "2", "3", "0", "0", "1">>,
     <<"8", ":", " ", "-", "1", "0">>
   >>,
   readErr |-> FALSE]

\* An assigned opcode with a target outside memory at address 0.
\*   0: 10050
ProgBadAddr ==
  [lines |-> <<
     <<"0", ":", " ", "1", "0", "0", "5", "0">>
   >>,
   readErr |-> FALSE]

\* A negative word at address 0.
\*   0: -5
ProgNegative ==
  [lines |-> <<
     <<"0", ":", " ", "-", "5">>
   >>,
   readErr |-> FALSE]

\* A later line for an address overwrites an earlier one; lines out of order.
\*   1: 50
\*   0: 100
\*   0: 200 // Overwritten
TextOverwrite ==
  [lines |-> <<
     <<"1", ":", " ", "5", "0">>,
     <<"0", ":", " ", "1", "0", "0">>,
     <<"0", ":", " ", "2", "0", "0", " ", "/", "/", " ", "O", "v", "e", "r", "w", "r", "i", "t", "t", "e", "n">>
   >>,
   readErr |-> FALSE]

\* Values outside [-99999, 99999] and at its ends; no blank after the colon; leading zeros; the ends of int.
\*   0: 100000
\*   1: -100000
\*   2:99999
\*   3:<TAB>-0
\*   4: 007 
\*   5: 9223372036854775807
\*   6: -9223372036854775808
\*   49: -99999<TAB>// last
TextClamp ==
  [lines |-> <<
     <<"0", ":", " ", "1", "0", "0", "0", "0", "0">>,
     <<"1", ":", " ", "-", "1", "0", "0", "0", "0", "0">>,
     <<"2", ":", "9", "9", "9", "9", "9">>,
     <<"3", ":", "\t", "-", "0">>,
     <<"4", ":", " ", "0", "0", "7", " ">>,
     <<"5", ":", " ", "9", "2", "2", "3", "3", "7", "2", "0", "3", "6", "8", "5", "4", "7", "7", "5", "8", "0", "7">>,
     <<"6", ":", " ", "-", "9", "2", "2", "3", "3", "7", "2", "0", "3", "6", "8", "5", "4", "7", "7", "5", "8", "0", "8">>,
     <<"4", "9", ":", " ", "-", "9", "9", "9", "9", "9", "\t", "/", "/", " ", "l", "a", "s", "t">>
   >>,
   readErr |-> FALSE]

\* The empty input.
TextEmpty ==
  [lines |-> <<
   >>,
   readErr |-> FALSE]

\* An address token that is no number.
\*   a: 100
TextBadLineFirst ==
  [lines |-> <<
     <<"a", ":", " ", "1", "0", "0">>
   >>,
   readErr |-> FALSE]

\* A line without address after a good line.
\*   0: 31000 // Ok
\*   : 31000 // Bad line
\*   1: 7
TextBadLineLater ==
  [lines |-> <<
     <<"0", ":", " ", "3", "1", "0", "0", "0", " ", "/", "/", " ", "O", "k">>,
     <<":", " ", "3", "1", "0", "0", "0", " ", "/", "/", " ", "B", "a", "d", " ", "l", "i", "n", "e">>,
     <<"1", ":", " ", "7">>
   >>,
   readErr |-> FALSE]

\* A value token that is no number.
\*   1: 31aasdf // Bad line
TextBadValueToken ==
  [lines |-> <<
     <<"1", ":", " ", "3", "1", "a", "a", "s", "d", "f", " ", "/", "/", " ", "B", "a", "d", " ", "l", "i", "n", "e">>
   >>,
   readErr |-> FALSE]

\* A signed address.
\*   3: 3
\*   -1: 5
TextBadSign ==
  [lines |-> <<
     <<"3", ":", " ", "3">>,
     <<"-", "1", ":", " ", "5">>
   >>,
   readErr |-> FALSE]

\* An empty line between two good lines.
\*   0: 5
\*   (an empty line)
\*   1: 6
TextBlankLine ==
  [lines |-> <<
     <<"0", ":", " ", "5">>,
     <<>>,
     <<"1", ":", " ", "6">>
   >>,
   readErr |-> FALSE]

\* An address outside memory after a good line.
\*   0: 7
\*   50: 31000 // Bad address
\*   1: 8
TextBadAddr ==
  [lines |-> <<
     <<"0", ":", " ", "7">>,
     <<"5", "0", ":", " ", "3", "1", "0", "0", "0", " ", "/", "/", " ", "B", "a", "d", " ", "a", "d", "d", "r", "e", "s", "s">>,
     <<"1", ":", " ", "8">>
   >>,
   readErr |-> FALSE]

\* An address beyond the range of int.
\*   2: 2
\*   99999999999999999999: 5
TextHugeAddr ==
  [lines |-> <<
     <<"2", ":", " ", "2">>,
     <<"9", "9", "9", "9", "9", "9", "9", "9", "9", "9", "9", "9", "9", "9", "9", "9", "9", "9", "9", "9", ":", " ", "5">>
   >>,
   readErr |-> FALSE]

\* A value with two minus signs.
\*   0: 4
\*   1: --5
\*   2: 6
TextTwoMinus ==
  [lines |-> <<
     <<"0", ":", " ", "4">>,
     <<"1", ":", " ", "-", "-", "5">>,
     <<"2", ":", " ", "6">>
   >>,
   readErr |-> FALSE]

\* A value just beyond the range of int.
\*   0: 9223372036854775808
TextHugeValue ==
  [lines |-> <<
     <<"0", ":", " ", "9", "2", "2", "3", "3", "7", "2", "0", "3", "6", "8", "5", "4", "7", "7", "5", "8", "0", "8">>
   >>,
   readErr |-> FALSE]

\* The reader fails after two lines.
\*   0: 9
\*   1: 10000
TextReadErr ==
  [lines |-> <<
     <<"0", ":", " ", "9">>,
     <<"1", ":", " ", "1", "0", "0", "0", "0">>
   >>,
   readErr |-> TRUE]

\* A line with an address outside memory and a value token that is no number.
\*   0: 1
\*   77: 3x
TextBadBoth ==
  [lines |-> <<
     <<"0", ":", " ", "1">>,
     <<"7", "7", ":", " ", "3", "x">>
   >>,
   readErr |-> FALSE]

\* A HLT followed by instructions that a stopped machine should not execute.
\*   0: 0
\*   1: 30010
\*   2: 31010
\*   3: 10010
\*   4: 23020
ProgAfterHalt ==
  [lines |-> <<
     <<"0", ":", " ", "0">>,
     <<"1", ":", " ", "3", "0", "0", "1", "0">>,
     <<"2", ":", " ", "3", "1", "0", "1", "0">>,
     <<"3", ":", " ", "1", "0", "0", "1", "0">>,
     <<"4", ":", " ", "2", "3", "0", "2", "0">>
   >>,
   readErr |-> FALSE]

Inputs ==
  <<ProgSample, ProgAddSub, ProgMulDiv, ProgJumps,
    ProgIO, ProgSelf, ProgBadOp, ProgBadAddr,
    ProgNegative, TextOverwrite, TextClamp, TextEmpty,
    TextBadLineFirst, TextBadLineLater, TextBadValueToken, TextBadSign,
    TextBlankLine, TextBadAddr, TextHugeAddr, TextTwoMinus,
    TextHugeValue, TextReadErr, ProgAfterHalt, TextBadBoth>>

\* The integers the read hook returns.
InputValues == {-1000000, -3, 42, 100000}

\* The addresses getInstruction is asked to decode.
ProbeAddrs == {-1, 0, 1, 2, 3, 4, 5, 6, 7, 8, 49, 50, 51}

\* The number of commands given to the BIOS in one behaviour.
MaxOps == 6

(***************************************************************************)
(* The machine.  last records the operation that led to the state: its     *)
(* name, for LoadProgram the input (its index in Inputs) and the error     *)
(* returned, for Step and getInstruction the address decoded and the       *)
(* decoder's result, and the calls of the I/O hooks the operation made     *)
(* (ins: the values the read hook returned, outs: the values passed to the *)
(* write hook).  viaRun tells a Step made by Run from one made directly.   *)
(***************************************************************************)
NoInst == Instruction("", 0)

Last(o) ==
  [op |-> o, input |-> 0, err |-> "", addr |-> 0, inst |-> NoInst, cs |-> CPUok,
   ins |-> <<>>, outs |-> <<>>, viaRun |-> FALSE]

\* NewMachine: every field has its zero value.
Init ==
  /\ mem = ZeroMem
  /\ pc = 0
  /\ ac = 0
  /\ mq = 0
  /\ state = CPUok
  /\ running = FALSE
  /\ last = Last("NewMachine")
  /\ nops = 0

\* What the loop of LoadProgram makes of each input, starting as LoadProgram
\* does from the memory it has just zeroed.
Loaded ==
  [p \in 1..Len(Inputs) |-> LoadLines(ZeroMem, Inputs[p].lines, 1, Inputs[p].readErr)]

\* LoadProgram reading into the memory as it is, not zeroed.
LoadProgramNoZero(p) ==
  LET r == LoadLines(mem, Inputs[p].lines, 1, Inputs[p].readErr)
  IN /\ mem' = r.mem
     /\ state' = IF r.err = "nil" THEN CPUok ELSE CPUhalt
     /\ last' = [Last("LoadProgram") EXCEPT !.input = p, !.err = r.err]
     /\ UNCHANGED <<pc, ac, mq>>

\* LoadProgram setting CPUok also when it returns an error.
LoadProgramOkOnError(p) ==
  LET r == Loaded[p]
  IN /\ mem' = r.mem
     /\ state' = CPUok
     /\ last' = [Last("LoadProgram") EXCEPT !.input = p, !.err = r.err]
     /\ UNCHANGED <<pc, ac, mq>>

\* LoadProgram resetting the registers as ResetCPU does.
LoadProgramResetting(p) ==
  LET r == Loaded[p]
  IN /\ mem' = r.mem
     /\ state' = IF r.err = "nil" THEN CPUok ELSE CPUhalt
     /\ last' = [Last("LoadProgram") EXCEPT !.input = p, !.err = r.err]
     /\ pc' = 0 /\ ac' = 0 /\ mq' = 0

\* LoadProgram on input number p.
LoadProgram(p) ==
  LET r == Loaded[p]
  IN /\ mem' = r.mem
     /\ state' = IF r.err = "nil" THEN CPUok ELSE CPUhalt
     /\ last' = [Last("LoadProgram") EXCEPT !.input = p, !.err = r.err]
     /\ UNCHANGED <<pc, ac, mq>>

(***************************************************************************)
(* Step.  Each case of its switch is an operator on the decoded target t;  *)
(* done is the record of the Step, which the case stores in last.  PC has  *)
(* been advanced by one before the switch, so every case but a taken jump  *)
(* leaves it at pc + 1.                                                    *)
(***************************************************************************)
\* Refuse with PC advanced as for an instruction that executes.
RefuseAdvancing(cs, done) ==
  /\ state' = cs
  /\ pc' = pc + 1
  /\ last' = done
  /\ UNCHANGED <<mem, ac, mq>>

\* The decoder did not return CPUok: the state is set and Step returns.
Refuse(cs, done) ==
  /\ state' = cs
  /\ last' = done
  /\ UNCHANGED <<mem, pc, ac, mq>>

\* HLT leaving PC on the HLT.
ExecHLTInPlace(done) ==
  /\ state' = CPUhalt
  /\ last' = done
  /\ UNCHANGED <<mem, pc, ac, mq>>

ExecHLT(done) ==
  /\ state' = CPUhalt
  /\ pc' = pc + 1
  /\ last' = done
  /\ UNCHANGED <<mem, ac, mq>>

\* JumpTaken with JLE taken for a negative accumulator only.
JumpTakenStrictJLE(op, a) ==
  CASE op = "JEQ" -> a = 0
    [] op = "JGT" -> a > 0
    [] op = "JLT" -> a < 0
    [] op = "JMP" -> TRUE
    [] op = "JLE" -> a < 0
    [] op = "JNE" -> a # 0

\* The condition under which the jump op is taken with accumulator a.
JumpTaken(op, a) ==
  CASE op = "JEQ" -> a = 0
    [] op = "JGT" -> a > 0
    [] op = "JLT" -> a < 0
    [] op = "JMP" -> TRUE
    [] op = "JLE" -> a <= 0
    [] op = "JNE" -> a # 0

\* LAC setting the state to what the decoder returned.
ExecLACSettingState(t, done) ==
  /\ ac' = mem[t]
  /\ pc' = pc + 1
  /\ state' = CPUok
  /\ last' = done
  /\ UNCHANGED <<mem, mq>>

ExecJump(op, t, done) ==
  /\ pc' = IF JumpTaken(op, ac) THEN t ELSE pc + 1
  /\ last' = done
  /\ UNCHANGED <<mem, ac, mq, state>>

ExecLAC(t, done) ==
  /\ ac' = mem[t]
  /\ pc' = pc + 1
  /\ last' = done
  /\ UNCHANGED <<mem, mq, state>>

ExecPAC(t, done) ==
  /\ mem' = [mem EXCEPT ![t] = ac]
  /\ pc' = pc + 1
  /\ last' = done
  /\ UNCHANGED <<ac, mq, state>>

\* LMQ clearing the cell it reads.
ExecLMQClearing(t, done) ==
  /\ mq' = mem[t]
  /\ mem' = [mem EXCEPT ![t] = 0]
  /\ pc' = pc + 1
  /\ last' = done
  /\ UNCHANGED <<ac, state>>

\* PMQ storing the accumulator.
ExecPMQStoringAC(t, done) ==
  /\ mem' = [mem EXCEPT ![t] = ac]
  /\ pc' = pc + 1
  /\ last' = done
  /\ UNCHANGED <<ac, mq, state>>

ExecLMQ(t, done) ==
  /\ mq' = mem[t]
  /\ pc' = pc + 1
  /\ last' = done
  /\ UNCHANGED <<mem, ac, state>>

ExecPMQ(t, done) ==
  /\ mem' = [mem EXCEPT ![t] = mq]
  /\ pc' = pc + 1
  /\ last' = done
  /\ UNCHANGED <<ac, mq, state>>

ExecADD(t, done) ==
  /\ ac' = boundsCap(ac + mem[t])
  /\ pc' = pc + 1
  /\ last' = done
  /\ UNCHANGED <<mem, mq, state>>

ExecSUB(t, done) ==
  /\ ac' = boundsCap(ac - mem[t])
  /\ pc' = pc + 1
  /\ last' = done
  /\ UNCHANGED <<mem, mq, state>>

\* MUL storing the product as it is.
ExecMULUncapped(t, done) ==
  /\ mq' = MulInt(mq, mem[t])
  /\ pc' = pc + 1
  /\ last' = done
  /\ UNCHANGED <<mem, ac, state>>

ExecMUL(t, done) ==
  /\ mq' = boundsCap(MulInt(mq, mem[t]))
  /\ pc' = pc + 1
  /\ last' = done
  /\ UNCHANGED <<mem, ac, state>>

\* DIV zeroing AC and MQ when the divisor is zero.
ExecDIVClearing(t, done) ==
  IF mem[t] = 0
    THEN /\ state' = CPUdivzero
         /\ ac' = 0
         /\ mq' = 0
         /\ pc' = pc + 1
         /\ last' = done
         /\ UNCHANGED mem
  ELSE /\ ac' = RemInt(mq, mem[t])
       /\ mq' = QuoInt(mq, mem[t])
       /\ pc' = pc + 1
       /\ last' = done
       /\ UNCHANGED <<mem, state>>

\* DIV leaving PC on the instruction when the divisor is zero.
ExecDIVZeroInPlace(t, done) ==
  IF mem[t] = 0
    THEN /\ state' = CPUdivzero
         /\ last' = done
         /\ UNCHANGED <<mem, pc, ac, mq>>
  ELSE /\ ac' = RemInt(mq, mem[t])
       /\ mq' = QuoInt(mq, mem[t])
       /\ pc' = pc + 1
       /\ last' = done
       /\ UNCHANGED <<mem, state>>

\* DIV storing the quotient first and taking the remainder of the new MQ.
ExecDIVQuotientFirst(t, done) ==
  IF mem[t] = 0
    THEN /\ state' = CPUdivzero
         /\ pc' = pc + 1
         /\ last' = done
         /\ UNCHANGED <<mem, ac, mq>>
  ELSE /\ mq' = QuoInt(mq, mem[t])
       /\ ac' = RemInt(QuoInt(mq, mem[t]), mem[t])
       /\ pc' = pc + 1
       /\ last' = done
       /\ UNCHANGED <<mem, state>>

ExecDIV(t, done) ==
  IF mem[t] = 0
    THEN /\ state' = CPUdivzero
         /\ pc' = pc + 1
         /\ last' = done
         /\ UNCHANGED <<mem, ac, mq>>
  ELSE /\ ac' = RemInt(mq, mem[t])
       /\ mq' = QuoInt(mq, mem[t])
       /\ pc' = pc + 1
       /\ last' = done
       /\ UNCHANGED <<mem, state>>

\* GET storing what the read hook returned as it is.
ExecGETUncapped(t, done) ==
  \E v \in InputValues :
    /\ mem' = [mem EXCEPT ![t] = v]
    /\ pc' = pc + 1
    /\ last' = [done EXCEPT !.ins = <<v>>]
    /\ UNCHANGED <<ac, mq, state>>

\* The read hook is called once; v is what it returns.
ExecGET(t, done) ==
  \E v \in InputValues :
    /\ mem' = [mem EXCEPT ![t] = boundsCap(v)]
    /\ pc' = pc + 1
    /\ last' = [done EXCEPT !.ins = <<v>>]
    /\ UNCHANGED <<ac, mq, state>>

\* PUT advancing PC around the end of the memory.
ExecPUTWrapping(t, done) ==
  /\ pc' = (pc + 1) % memSize
  /\ last' = [done EXCEPT !.outs = <<mem[t]>>]
  /\ UNCHANGED <<mem, ac, mq, state>>

\* PUT handing the target address to the write hook.
ExecPUTAddress(t, done) ==
  /\ pc' = pc + 1
  /\ last' = [done EXCEPT !.outs = <<t>>]
  /\ UNCHANGED <<mem, ac, mq, state>>

\* The write hook is called once.
ExecPUT(t, done) ==
  /\ pc' = pc + 1
  /\ last' = [done EXCEPT !.outs = <<mem[t]>>]
  /\ UNCHANGED <<mem, ac, mq, state>>

\* The default case of the switch.
ExecDefault(done) ==
  /\ state' = CPUbadinst
  /\ pc' = pc + 1
  /\ last' = done
  /\ UNCHANGED <<mem, ac, mq>>

\* Step; byRun is whether Run makes the call.
Step(byRun) ==
  LET r == getInstruction(mem, pc)
      i == r.inst
      t == i.addr
      done == [Last("Step") EXCEPT !.addr = pc, !.inst = i, !.cs = r.cs, !.viaRun = byRun]
  IN IF r.cs # CPUok THEN Refuse(r.cs, done)
     ELSE CASE i.op = "HLT" -> ExecHLT(done)
            [] i.op \in {"JEQ", "JGT", "JLT", "JMP", "JLE", "JNE"} -> ExecJump(i.op, t, done)
            [] i.op = "LAC" -> ExecLAC(t, done)
            [] i.op = "PAC" -> ExecPAC(t, done)
            [] i.op = "LMQ" -> ExecLMQ(t, done)
            [] i.op = "PMQ" -> ExecPMQ(t, done)
            [] i.op = "ADD" -> ExecADD(t, done)
            [] i.op = "SUB" -> ExecSUB(t, done)
            [] i.op = "MUL" -> ExecMUL(t, done)
            [] i.op = "DIV" -> ExecDIV(t, done)
            [] i.op = "GET" -> ExecGET(t, done)
            [] i.op = "PUT" -> ExecPUT(t, done)
            [] OTHER -> ExecDefault(done)

\* Halted.
Halted == state # CPUok

\* ResetCPU clearing the memory with the registers.
ResetCPUClearingMemory ==
  /\ ac' = 0
  /\ mq' = 0
  /\ pc' = 0
  /\ state' = CPUok
  /\ last' = Last("ResetCPU")
  /\ mem' = ZeroMem

\* ResetCPU.
ResetCPU ==
  /\ ac' = 0
  /\ mq' = 0
  /\ pc' = 0
  /\ state' = CPUok
  /\ last' = Last("ResetCPU")
  /\ UNCHANGED mem

(***************************************************************************)
(* The operations, as the BIOS menu and Run call them.  The machine has    *)
(* one thread of control: while Run loops nothing else is called.          *)
(***************************************************************************)
\* One more command; the passes of the loop of Run belong to its command.
Tick == nops < MaxOps /\ nops' = nops + 1

\* Menu "l" with a file that opens.
DoLoadProgram ==
  /\ Tick
  /\ ~running
  /\ \E p \in 1..Len(Inputs) : LoadProgram(p)
  /\ UNCHANGED running

\* Menu "s".
DoStep ==
  /\ Tick
  /\ ~running
  /\ Step(FALSE)
  /\ UNCHANGED running

\* Menu "g": Run is called and makes the first Step of its loop; it returns
\* when Halted holds after it.
DoRun ==
  /\ Tick
  /\ ~running
  /\ Step(TRUE)
  /\ running' = ~Halted'

\* A later pass of the loop of Run.
RunLoop ==
  /\ running
  /\ UNCHANGED nops
  /\ Step(TRUE)
  /\ running' = ~Halted'

\* Menu "z".
DoResetCPU ==
  /\ Tick
  /\ ~running
  /\ ResetCPU
  /\ UNCHANGED running

\* The decoder asked about an address; the machine is not changed.
DoGetInstruction ==
  /\ Tick
  /\ ~running
  /\ \E addr \in ProbeAddrs :
       LET r == getInstruction(mem, addr)
       IN last' = [Last("getInstruction") EXCEPT !.addr = addr, !.inst = r.inst, !.cs = r.cs]
  /\ UNCHANGED <<mem, pc, ac, mq, state, running>>

Next ==
  \/ DoLoadProgram
  \/ DoStep
  \/ DoRun
  \/ RunLoop
  \/ DoResetCPU
  \/ DoGetInstruction

Spec == Init /\ [][Next]_vars

\* The README's sample program loaded into the new machine: the state that
\* NewMachine followed by LoadProgram on the sample text leaves.
InitSample ==
  /\ mem = Loaded[1].mem
  /\ pc = 0
  /\ ac = 0
  /\ mq = 0
  /\ state = CPUok
  /\ running = FALSE
  /\ last = [Last("LoadProgram") EXCEPT !.input = 1, !.err = Loaded[1].err]
  /\ nops = 1

\* The menu used for stepping and running only.
NextSample ==
  \/ DoStep
  \/ DoRun
  \/ RunLoop
  \/ DoGetInstruction

\* The loop of Run goes on to its next pass whenever it has one to make: the
\* for statement of Run has nothing to wait for.
SpecSample == InitSample /\ [][NextSample]_vars /\ WF_vars(RunLoop)

(***************************************************************************)
(* The claims.  A claim about one operation is stated of every step of a   *)
(* behaviour that is this operation: unprimed variables are the machine    *)
(* before the operation, primed ones the machine after it, and last' tells *)
(* which operation the step is.                                            *)
(***************************************************************************)

\* C1: in every reachable state every memory cell, AC and MQ lie in
\* [-99999, 99999].
C1_ValuesInRange ==
  /\ DOMAIN mem = 0..49
  /\ \A a \in DOMAIN mem : mem[a] \in -99999..99999
  /\ ac \in -99999..99999
  /\ mq \in -99999..99999

\* A GET has stored the floor for an input far below it, and a MUL has
\* saturated at the ceiling.
C1_Witness ==
  \/ /\ last.op = "Step" /\ last.inst.op = "GET"
     /\ last.ins = <<-1000000>> /\ mem[last.inst.addr] = -99999
  \/ /\ last.op = "Step" /\ last.inst.op = "MUL" /\ mq = 99999

\* C2: once CPUState is not runnable, a Step leaves PC, AC, MQ and memory
\* unchanged and calls no I/O hook.
C2_StoppedMachineDoesNotExecute ==
  [][(state # CPUok /\ last'.op = "Step") =>
       /\ pc' = pc /\ ac' = ac /\ mq' = mq /\ mem' = mem
       /\ last'.ins = <<>> /\ last'.outs = <<>>]_vars

\* C3: a Step whose instruction does not decode as runnable sets CPUState to
\* the decoder's verdict and changes nothing else, and calls no I/O hook.
C3_RefusedStepChangesOnlyState ==
  [][(last'.op = "Step" /\ getInstruction(mem, pc).cs # CPUok) =>
       /\ state' = getInstruction(mem, pc).cs
       /\ pc' = pc /\ ac' = ac /\ mq' = mq /\ mem' = mem
       /\ last'.ins = <<>> /\ last'.outs = <<>>]_vars

\* A Step has been refused for a target outside memory, and one for PC
\* outside memory.
C3_Witness ==
  /\ last.op = "Step"
  /\ \/ last.cs = CPUbadaddr /\ state = CPUbadaddr /\ last.inst.addr = 50
     \/ last.cs = CPUbadinst /\ state = CPUbadinst /\ pc = 50

\* C4: getInstruction(addr) is (UNK, 0)/CPUbadinst for addr outside [0,50);
\* otherwise, with opcode = word/1000 and target = word%1000 (truncated
\* division), (UNK, target)/CPUbadinst for an unassigned opcode,
\* (mnemonic, target)/CPUbadaddr for an assigned opcode with target outside
\* [0,50), and (mnemonic, target)/CPUok otherwise.
C4_DecoderCases ==
  last.op = "getInstruction" =>
    IF last.addr < 0 \/ last.addr >= 50
      THEN last.inst = [op |-> "UNK", addr |-> 0] /\ last.cs = CPUbadinst
    ELSE LET w == mem[last.addr]
             \* the quotient truncated toward zero: the remainder is smaller
             \* than 1000 in magnitude and is zero or has the sign of w
             opcode == CHOOSE q \in -99..99 :
                         LET r == w - 1000 * q
                         IN r \in -999..999 /\ (r = 0 \/ (r > 0) = (w > 0))
             target == w - 1000 * opcode
             assigned == {0, 1, 2, 3, 5, 6, 7, 10, 11, 12, 13, 20, 21, 22, 23, 30, 31}
         IN IF opcode \notin assigned
              THEN last.inst = [op |-> "UNK", addr |-> target] /\ last.cs = CPUbadinst
            ELSE IF target < 0 \/ target >= 50
              THEN last.inst = [op |-> ops[opcode], addr |-> target] /\ last.cs = CPUbadaddr
            ELSE last.inst = [op |-> ops[opcode], addr |-> target] /\ last.cs = CPUok

\* The decoder has been asked about a word whose opcode and target are both
\* invalid (99103), and about a negative word.
C4_Witness ==
  /\ last.op = "getInstruction"
  /\ last.addr \in DOMAIN mem
  /\ \/ mem[last.addr] = 99103 /\ last.inst = [op |-> "UNK", addr |-> 103]
     \/ mem[last.addr] = -23001 /\ last.inst = [op |-> "UNK", addr |-> -1]

(***************************************************************************)
(* The program text format, read declaratively: a line is good when it     *)
(* matches the grammar and its address and value are numbers, the address  *)
(* in memory; the text stands for the all-zero memory in which each        *)
(* address named by a good line before the first bad one holds the clamped *)
(* value of the last such line naming it.                                  *)
(***************************************************************************)
TextMeaning ==
  [p \in 1..Len(Inputs) |->
     LET lines == Inputs[p].lines
         addrOf(j) == Atoi(MatchLine(lines[j]).a)
         valueOf(j) == Atoi(MatchLine(lines[j]).v)
         good(j) == /\ MatchLine(lines[j]).ok
                    /\ ~addrOf(j).err /\ addrOf(j).n \in 0..49
                    /\ ~valueOf(j).err
         bad == {j \in 1..Len(lines) : ~good(j)}
         firstBad == IF bad = {} THEN Len(lines) + 1
                     ELSE CHOOSE j \in bad : \A i \in bad : j <= i
         cell(a) ==
           LET js == {j \in 1..(firstBad - 1) : addrOf(j).n = a}
               j == CHOOSE x \in js : \A i \in js : i <= x
               v == valueOf(j).n
           IN IF js = {} THEN 0
              ELSE IF v > 99999 THEN 99999
              ELSE IF v < -99999 THEN -99999
              ELSE v
     IN [allGood |-> bad = {}, firstBad |-> firstBad,
         mem |-> [a \in 0..49 |-> cell(a)]]]

\* C5: when LoadProgram succeeds, memory is the all-zero memory to which the
\* lines were applied in input order (values clamped, a later line for an
\* address overwriting an earlier one), nothing of the memory before the
\* load remains, and CPUState is runnable.
C5_LoadSuccess ==
  (last.op = "LoadProgram" /\ last.err = "nil") =>
    /\ TextMeaning[last.input].allGood
    /\ mem = TextMeaning[last.input].mem
    /\ state = CPUok

\* A text with lines out of order and an overwritten address has been
\* loaded over a memory that held another program.
C5_Witness ==
  /\ last.op = "LoadProgram" /\ last.err = "nil"
  /\ Inputs[last.input] = TextOverwrite
  /\ mem[0] = 200 /\ mem[1] = 50 /\ mem[2] = 0
  /\ pc > 0

\* C6: when LoadProgram fails at line k it returns a load error, leaves
\* CPUState halted, and memory is the all-zero memory with exactly the lines
\* 1..k-1 applied (all the lines when it is the reader that fails); CPUState
\* is runnable after LoadProgram only if the whole input loaded.
C6_LoadFailure ==
  last.op = "LoadProgram" =>
    LET t == TextMeaning[last.input]
        failed == ~t.allGood \/ Inputs[last.input].readErr
    IN /\ failed <=> last.err # "nil"
       /\ failed =>
            /\ last.err \in {loadErrBadFile, loadErrBadLine, loadErrBadAddr, loadErrBadValue}
            /\ state = CPUhalt
            /\ mem = t.mem
       /\ state = CPUok => ~failed

\* A load has failed at its second line with the first line stored and the
\* good third line not stored.
C6_Witness ==
  /\ last.op = "LoadProgram" /\ last.err = loadErrBadAddr
  /\ Inputs[last.input] = TextBadAddr
  /\ mem[0] = 7 /\ mem[1] = 0
  /\ state = CPUhalt

\* C7 as stated: after LoadProgram PC, AC and MQ are zero.
C7_LoadResetsRegisters ==
  last.op = "LoadProgram" => (pc = 0 /\ ac = 0 /\ mq = 0)

\* C7, amended: LoadProgram leaves PC, AC and MQ as they were before the
\* call.
C7_LoadKeepsRegisters ==
  [][last'.op = "LoadProgram" => (pc' = pc /\ ac' = ac /\ mq' = mq)]_vars

\* A program has been loaded into a machine whose registers were all
\* nonzero, and they still are.
C7_Witness ==
  last.op = "LoadProgram" /\ last.err = "nil" /\ pc # 0 /\ ac # 0 /\ mq # 0

\* C8: a Step that executes DIV on a memory cell holding 0 sets CPUState to
\* divide-by-zero and leaves AC and MQ as they were.
C8_DivideByZero ==
  [][(/\ last'.op = "Step" /\ last'.cs = CPUok /\ last'.inst.op = "DIV"
      /\ mem[last'.inst.addr] = 0) =>
       (state' = CPUdivzero /\ ac' = ac /\ mq' = mq)]_vars

\* A DIV by zero has been executed with AC and MQ nonzero.
C8_Witness ==
  /\ last.op = "Step" /\ last.cs = CPUok /\ last.inst.op = "DIV"
  /\ mem[last.inst.addr] = 0
  /\ state = CPUdivzero /\ ac # 0 /\ mq # 0

\* C9: a Step that executes DIV with divisor d # 0 and MQ = m sets MQ to the
\* quotient truncated toward zero and AC to the remainder: MQ'*d + AC' = m,
\* |AC'| < |d|, AC' is zero or has the sign of m; 12 by 9 gives 1 and 3,
\* -12 by 9 gives -1 and -3; a runnable CPUState stays runnable.
C9_Division ==
  [][(/\ last'.op = "Step" /\ last'.cs = CPUok /\ last'.inst.op = "DIV"
      /\ mem[last'.inst.addr] # 0) =>
       LET d == mem[last'.inst.addr]
           m == mq
       IN /\ mq' * d + ac' = m
          /\ (IF ac' < 0 THEN -ac' ELSE ac') < (IF d < 0 THEN -d ELSE d)
          /\ ac' = 0 \/ (ac' > 0) = (m > 0)
          /\ (m = 12 /\ d = 9) => (mq' = 1 /\ ac' = 3)
          /\ (m = -12 /\ d = 9) => (mq' = -1 /\ ac' = -3)
          /\ state' = state]_vars

\* -12 has been divided by 9.
C9_Witness ==
  /\ last.op = "Step" /\ last.cs = CPUok /\ last.inst.op = "DIV"
  /\ mem[last.inst.addr] = 9
  /\ mq = -1 /\ ac = -3 /\ state = CPUok

\* C10: ADD sets AC to clamp(AC + mem[target]), SUB sets AC to
\* clamp(AC - mem[target]) and MUL sets MQ to clamp(MQ * mem[target]), the
\* clamp applied to the exact result: above 99999 it is 99999, below -99999
\* it is -99999, and a result in range is stored unchanged.  (The product is
\* out of range exactly when both factors are nonzero and |MQ| exceeds
\* 99999 divided by |mem[target]|.)
C10_ClampedArithmetic ==
  [][(last'.op = "Step" /\ last'.cs = CPUok
      /\ last'.inst.op \in {"ADD", "SUB", "MUL"}) =>
       LET x == mem[last'.inst.addr]
           sum == ac + x
           diff == ac - x
           absx == IF x < 0 THEN -x ELSE x
           absq == IF mq < 0 THEN -mq ELSE mq
       IN CASE last'.inst.op = "ADD" ->
                 /\ sum > 99999 => ac' = 99999
                 /\ sum < -99999 => ac' = -99999
                 /\ sum \in -99999..99999 => ac' = sum
            [] last'.inst.op = "SUB" ->
                 /\ diff > 99999 => ac' = 99999
                 /\ diff < -99999 => ac' = -99999
                 /\ diff \in -99999..99999 => ac' = diff
            [] last'.inst.op = "MUL" ->
                 IF x = 0 \/ mq = 0 THEN mq' = 0
                 ELSE IF absq <= 99999 \div absx THEN mq' = mq * x
                 ELSE IF (mq > 0) = (x > 0) THEN mq' = 99999
                 ELSE mq' = -99999]_vars

\* A MUL has saturated at the floor.
C10_Witness ==
  /\ last.op = "Step" /\ last.cs = CPUok /\ last.inst.op = "MUL"
  /\ mem[last.inst.addr] = -4
  /\ mq = -99999

\* C11: a Step that executes a jump at address p sets PC to the target when
\* the predicate holds (JEQ: AC=0, JGT: AC>0, JLT: AC<0, JLE: AC<=0,
\* JNE: AC#0, JMP: always) and to p+1 otherwise; AC, MQ, memory and CPUState
\* are unchanged.
C11_Jumps ==
  [][(last'.op = "Step" /\ last'.cs = CPUok
      /\ last'.inst.op \in {"JEQ", "JGT", "JLT", "JMP", "JLE", "JNE"}) =>
       LET j == last'.inst.op
           holds == \/ j = "JEQ" /\ ac = 0
                    \/ j = "JGT" /\ ac > 0
                    \/ j = "JLT" /\ ac < 0
                    \/ j = "JLE" /\ ac <= 0
                    \/ j = "JNE" /\ ac # 0
                    \/ j = "JMP"
       IN /\ holds => pc' = last'.inst.addr
          /\ ~holds => pc' = pc + 1
          /\ ac' = ac /\ mq' = mq /\ mem' = mem /\ state' = state]_vars

\* A JLE has been taken with AC zero to an address that is not the next one.
C11_Witness ==
  /\ last.op = "Step" /\ last.cs = CPUok /\ last.inst.op = "JLE"
  /\ ac = 0 /\ pc = last.inst.addr /\ pc # last.addr + 1

\* C12: a newly created machine has all memory cells, PC, AC and MQ zero and
\* CPUState runnable, and one Step on it leaves CPUState halted with PC = 1
\* and AC, MQ and memory unchanged.
C12_FreshMachineHalts ==
  /\ last.op = "NewMachine" =>
       /\ mem = [a \in 0..49 |-> 0]
       /\ pc = 0 /\ ac = 0 /\ mq = 0 /\ state = CPUok
  /\ (nops = 1 /\ last.op = "Step") =>
       /\ state = CPUhalt /\ pc = 1 /\ ac = 0 /\ mq = 0
       /\ mem = [a \in 0..49 |-> 0]
       /\ last.inst = [op |-> "HLT", addr |-> 0]

\* The first operation on the new machine has been a Step.
C12_Witness ==
  nops = 1 /\ last.op = "Step" /\ ~last.viaRun /\ state = CPUhalt /\ pc = 1

\* C13: with the sample program (0: PUT 2, 1: JMP 0, 2: 99103) loaded into a
\* new machine, stepping from PC = 0 never leaves the runnable state, PC is
\* always 0 or 1, every value passed to the write hook is 99103, and once Run
\* is started it never returns and calls the write hook again and again.
C13_SampleRunsForever ==
  /\ [](state = CPUok /\ pc \in {0, 1})
  /\ [](last.op = "Step" => (last.ins = <<>> /\ last.outs \in {<<>>, <<99103>>}))
  /\ [](running => []running)
  /\ [](running => ([]<>(last.outs = <<99103>>) /\ []<>(last.outs = <<>>)))

\* Run is in its loop on the sample program and has just written 99103.
C13_Witness ==
  /\ running /\ last.op = "Step" /\ last.viaRun /\ last.inst = [op |-> "PUT", addr |-> 2]
  /\ last.outs = <<99103>> /\ pc = 1 /\ state = CPUok

\* C14: Run performs a Step only while the machine is runnable: no Step
\* made by Run starts in a non-runnable state, Run tests CPUState after each
\* Step, and CPUState is non-runnable when Run returns.
C14_RunStepsOnlyWhileRunnable ==
  [][(last'.op = "Step" /\ last'.viaRun) =>
       (state = CPUok /\ (running' <=> state' = CPUok))]_vars

\* C15: ResetCPU sets PC, AC and MQ to 0 and CPUState to runnable and leaves
\* every memory cell as it was, whatever the state it is called in.
C15_ResetCPU ==
  [][last'.op = "ResetCPU" =>
       (/\ pc' = 0 /\ ac' = 0 /\ mq' = 0 /\ state' = CPUok
        /\ \A a \in 0..49 : mem'[a] = mem[a])]_vars

\* ResetCPU has been called on a machine with a program in its memory.
C15_Witness ==
  /\ last.op = "ResetCPU" /\ mem[0] # 0
  /\ pc = 0 /\ ac = 0 /\ mq = 0 /\ state = CPUok

\* C16: a Step that executes GET calls the read hook once and stores the
\* clamped value in mem[target]; a Step that executes PUT calls the write
\* hook once with mem[target] and changes no memory cell, AC, MQ or CPUState.
C16_Hooks ==
  [][(last'.op = "Step" /\ last'.cs = CPUok) =>
       LET t == last'.inst.addr
           clamp(v) == IF v > 99999 THEN 99999 ELSE IF v < -99999 THEN -99999 ELSE v
       IN /\ last'.inst.op = "GET" =>
               /\ Len(last'.ins) = 1 /\ last'.outs = <<>>
               /\ mem'[t] = clamp(last'.ins[1])
               /\ \A a \in 0..49 : a # t => mem'[a] = mem[a]
          /\ last'.inst.op = "PUT" =>
               /\ last'.outs = <<mem[t]>> /\ last'.ins = <<>>
               /\ mem' = mem /\ ac' = ac /\ mq' = mq /\ state' = state
          /\ last'.inst.op \notin {"GET", "PUT"} =>
               last'.ins = <<>> /\ last'.outs = <<>>]_vars

\* GET has stored a value that the read hook returned above the range.
C16_Witness ==
  /\ last.op = "Step" /\ last.cs = CPUok /\ last.inst.op = "GET"
  /\ last.ins = <<100000>> /\ mem[last.inst.addr] = 99999

(***************************************************************************)
(* The line grammar, read declaratively: digits, a colon, optional         *)
(* whitespace, minus signs and digits, then the end of the line or         *)
(* whitespace and anything; and whether the address token of a line that   *)
(* matches names a cell of the memory.                                     *)
(***************************************************************************)
TextGrammar ==
  [p \in 1..Len(Inputs) |->
     [j \in 1..Len(Inputs[p].lines) |->
        LET L == Inputs[p].lines[j]
            n == Len(L)
            digits == {"0", "1", "2", "3", "4", "5", "6", "7", "8", "9"}
            blanks == {" ", "\t", "\f", "\r"}
            all(from, to, S) == \A i \in from..to : L[i] \in S
            colons == {c \in 2..n : L[c] = ":" /\ all(1, c - 1, digits)}
            matches ==
              \E c \in colons : \E b \in (c + 1)..n : \E d \in b..n :
                \E e \in (d + 1)..(n + 1) :
                  /\ all(c + 1, b - 1, blanks)
                  /\ all(b, d - 1, {"-"})
                  /\ all(d, e - 1, digits)
                  /\ e = n + 1 \/ L[e] \in blanks
            c0 == CHOOSE c \in colons : TRUE
            zeros == CHOOSE z \in 0..(c0 - 1) :
                       /\ all(1, z, {"0"})
                       /\ z = c0 - 1 \/ L[z + 1] # "0"
            sig == c0 - 1 - zeros
            inside == \/ sig <= 1
                      \/ sig = 2 /\ L[zeros + 1] \in {"0", "1", "2", "3", "4"}
        IN [matches |-> matches, inside |-> matches /\ inside]]]

C18_UnknownHasZeroTarget ==
  (last.op = "getInstruction" /\ last.addr \in 0..49) =>
    LET w == mem[last.addr]
        opcode == IF w >= 0 THEN w \div 1000 ELSE -((-w) \div 1000)
    IN opcode \notin {0, 1, 2, 3, 5, 6, 7, 10, 11, 12, 13, 20, 21, 22, 23, 30, 31} =>
         (last.inst = [op |-> "UNK", addr |-> 0] /\ last.cs = CPUbadinst)

\* C18, amended: a word whose opcode is unassigned decodes as
\* (unknown, target) with invalid-instruction, where target is the rest of
\* the word after the opcode (its low three digits, with the word's sign); it
\* is (unknown, 0) only when those digits are 000.
C18_UnknownKeepsTarget ==
  (last.op = "getInstruction" /\ last.addr \in 0..49) =>
    LET w == mem[last.addr]
        opcode == IF w >= 0 THEN w \div 1000 ELSE -((-w) \div 1000)
        target == w - 1000 * opcode
    IN opcode \notin {0, 1, 2, 3, 5, 6, 7, 10, 11, 12, 13, 20, 21, 22, 23, 30, 31} =>
         /\ last.inst.op = "UNK" /\ last.cs = CPUbadinst
         /\ last.inst.addr = target
         /\ last.inst.addr = 0 <=> w = 1000 * opcode

\* The decoder has been asked about the word 32005 and has reported target 5.
C18_Witness ==
  /\ last.op = "getInstruction" /\ last.addr \in 0..49
  /\ mem[last.addr] = 32005
  /\ last.inst = [op |-> "UNK", addr |-> 5] /\ last.cs = CPUbadinst

\* C19 as stated: a Step that executes DIV with a zero divisor leaves PC, AC,
\* MQ and every memory cell as they were; only CPUState changes.
C19_DivZeroKeepsPC ==
  [][(/\ last'.op = "Step" /\ last'.cs = CPUok /\ last'.inst.op = "DIV"
      /\ mem[last'.inst.addr] = 0) =>
       (/\ pc' = pc /\ ac' = ac /\ mq' = mq /\ mem' = mem
        /\ state' = CPUdivzero)]_vars

\* C19, amended: a Step that executes DIV with a zero divisor leaves AC, MQ
\* and every memory cell as they were, sets CPUState to divide-by-zero, and
\* leaves PC one past the address of the DIV.
C19_DivZeroAdvancesPC ==
  [][(/\ last'.op = "Step" /\ last'.cs = CPUok /\ last'.inst.op = "DIV"
      /\ mem[last'.inst.addr] = 0) =>
       (/\ pc' = pc + 1 /\ last'.addr = pc
        /\ ac' = ac /\ mq' = mq /\ mem' = mem
        /\ state' = CPUdivzero)]_vars

\* A DIV by zero has been executed and PC is one past it.
C19_Witness ==
  /\ last.op = "Step" /\ last.cs = CPUok /\ last.inst.op = "DIV"
  /\ mem[last.inst.addr] = 0
  /\ state = CPUdivzero /\ pc = last.addr + 1

\* C20: a Step that executes LAC (LMQ) sets AC (MQ) to the pre-step
\* mem[target]; one that executes PAC (PMQ) sets mem[target] to AC (MQ);
\* nothing else changes but PC, which becomes the old PC + 1; this also
\* holds when the target is the address of the instruction itself.
C20_LoadStore ==
  [][(last'.op = "Step" /\ last'.cs = CPUok
      /\ last'.inst.op \in {"LAC", "PAC", "LMQ", "PMQ"}) =>
       LET o == last'.inst.op
           t == last'.inst.addr
       IN /\ pc' = pc + 1 /\ state' = state
          /\ ac' = IF o = "LAC" THEN mem[t] ELSE ac
          /\ mq' = IF o = "LMQ" THEN mem[t] ELSE mq
          /\ \A a \in 0..49 :
               mem'[a] = IF a = t /\ o = "PAC" THEN ac
                         ELSE IF a = t /\ o = "PMQ" THEN mq
                         ELSE mem[a]]_vars

\* A PAC whose target is its own address has overwritten itself with AC.
C20_Witness ==
  /\ last.op = "Step" /\ last.cs = CPUok
  /\ last.inst = [op |-> "PAC", addr |-> 1] /\ last.addr = 1
  /\ ac = 10000 /\ mem[1] = 10000 /\ pc = 2

(***************************************************************************)
(* The value token of each line, read declaratively: the longest run of    *)
(* minus signs and digits after the colon and the whitespace behind it;    *)
(* how many minus signs lead it, and whether its digits, with that sign,   *)
(* name a number outside the 64-bit int, -2^63 .. 2^63 - 1.                *)
(***************************************************************************)
TextValue ==
  [p \in 1..Len(Inputs) |->
     [j \in 1..Len(Inputs[p].lines) |->
        LET L == Inputs[p].lines[j]
            n == Len(L)
            digits == {"0", "1", "2", "3", "4", "5", "6", "7", "8", "9"}
            blanks == {" ", "\t", "\f", "\r"}
            c == CHOOSE i \in 1..n : L[i] = ":" /\ \A k \in 1..(i - 1) : L[k] # ":"
            b == CHOOSE i \in (c + 1)..(n + 1) :
                   /\ \A k \in (c + 1)..(i - 1) : L[k] \in blanks
                   /\ i = n + 1 \/ L[i] \notin blanks
            d == CHOOSE i \in b..(n + 1) :
                   /\ \A k \in b..(i - 1) : L[k] = "-"
                   /\ i = n + 1 \/ L[i] # "-"
            e == CHOOSE i \in d..(n + 1) :
                   /\ \A k \in d..(i - 1) : L[k] \in digits
                   /\ i = n + 1 \/ L[i] \notin digits
            z == CHOOSE i \in d..e :
                   /\ \A k \in d..(i - 1) : L[k] = "0"
                   /\ i = e \/ L[i] # "0"
            sig == [i \in 1..(e - z) |-> L[z + i - 1]]
            limit == IF d - b = 1 THEN MinIntDigits ELSE MaxIntDigits
            above == \E i \in 1..19 :
                       /\ \A k \in 1..(i - 1) : sig[k] = limit[k]
                       /\ DigitVal[sig[i]] > DigitVal[limit[i]]
        IN [minus |-> d - b,
            beyond |-> Len(sig) > 19 \/ (Len(sig) = 19 /\ above)]]]

\* C21 as stated: no load ends with the bad-value failure.
C21_BadValueUnreachable ==
  last.op = "LoadProgram" =>
    last.err \in {"nil", loadErrBadFile, loadErrBadLine, loadErrBadAddr}

\* C21, amended: the bad-value failure is reachable.  A load ends with it
\* exactly when its first failing line passes the loader's grammar with an
\* address in [0,50) and a value token that has more than one leading minus
\* sign or names a number outside the 64-bit int.
C21_BadValue ==
  last.op = "LoadProgram" =>
    LET t == TextMeaning[last.input]
        g == TextGrammar[last.input][t.firstBad]
        v == TextValue[last.input][t.firstBad]
    IN IF t.allGood THEN last.err # loadErrBadValue
       ELSE (last.err = loadErrBadValue) <=>
              (g.matches /\ g.inside /\ (v.minus > 1 \/ v.beyond))

\* A load has failed with bad-value at a line whose value has two minus
\* signs, with the line before it stored and the line after it not stored.
C21_Witness ==
  /\ last.op = "LoadProgram" /\ Inputs[last.input] = TextTwoMinus
  /\ last.err = loadErrBadValue /\ state = CPUhalt
  /\ mem[0] = 4 /\ mem[1] = 0 /\ mem[2] = 0

\* C22 as stated: the target field of every instruction the decoder returns
\* is in 0..999, for negative memory words too.
C22_TargetNonNegative ==
  last.op \in {"getInstruction", "Step"} => last.inst.addr \in 0..999

\* C22, amended: the target field of every instruction the decoder returns
\* is in -999..999: 0 for an address outside memory, in 0..999 (the low
\* three digits) for a word that is not negative, and in -999..0 (the low
\* three digits, negated) for a negative word.
C22_TargetRange ==
  /\ last.op \in {"getInstruction", "Step"} => last.inst.addr \in -999..999
  /\ last.op = "getInstruction" =>
       IF last.addr \notin 0..49 THEN last.inst.addr = 0
       ELSE LET w == mem[last.addr]
            IN /\ w \in -99999..99999
               /\ w >= 0 => last.inst.addr = w % 1000
               /\ w < 0 => last.inst.addr = -((-w) % 1000)

\* The decoder has been asked about the word -5 and has reported target -5.
C22_Witness ==
  /\ last.op = "getInstruction" /\ last.addr \in 0..49
  /\ mem[last.addr] = -5
  /\ last.inst = [op |-> "HLT", addr |-> -5] /\ last.cs = CPUbadaddr

\* C23: Step never changes CPUState from a non-runnable value to runnable;
\* once CPUState is non-runnable it stays non-runnable until ResetCPU or a
\* LoadProgram that succeeds, the only operations that set it to runnable.
C23_OnlyResetAndLoadResume ==
  [][/\ (last'.op = "Step" /\ state # CPUok) => state' # CPUok
     /\ (state # CPUok /\ state' = CPUok) =>
          \/ last'.op = "ResetCPU"
          \/ last'.op = "LoadProgram" /\ last'.err = "nil"
     /\ (last'.op \notin {"ResetCPU", "LoadProgram"} /\ state # CPUok) =>
          state' # CPUok]_vars

\* A Step has executed a LAC on a machine that was halted, and the machine is
\* halted still.
C23_Witness ==
  /\ last.op = "Step" /\ last.cs = CPUok /\ last.inst.op = "LAC"
  /\ state = CPUhalt

\* C24: in every reachable state 0 <= PC <= 50; PC becomes 50 only by the
\* sequential advance of a Step at address 49; an instruction that is
\* executed and is no jump leaves PC one higher, without wrapping; and a
\* Step taken with PC = 50 yields CPUbadinst and leaves PC at 50, reading no
\* memory and changing nothing else.
C24_PCRange ==
  /\ [](pc \in 0..50)
  /\ [][/\ (pc' = 50 /\ pc # 50) =>
             /\ last'.op = "Step" /\ last'.cs = CPUok /\ pc = 49
             /\ last'.addr = 49
        /\ (/\ last'.op = "Step" /\ last'.cs = CPUok
            /\ last'.inst.op \notin {"JEQ", "JGT", "JLT", "JMP", "JLE", "JNE"}) =>
             pc' = pc + 1
        /\ (last'.op = "Step" /\ pc = 50) =>
             /\ state' = CPUbadinst /\ pc' = 50
             /\ last'.inst = [op |-> "UNK", addr |-> 0]
             /\ mem' = mem /\ ac' = ac /\ mq' = mq]_vars

\* A Step has been taken with PC = 50, after the instruction at address 49
\* was executed.
C24_Witness ==
  /\ last.op = "Step" /\ last.addr = 50 /\ last.cs = CPUbadinst
  /\ pc = 50 /\ state = CPUbadinst

\* C25: no negative memory word is executed: for a word in [-99999, -1] the
\* decoder returns CPUbadinst or CPUbadaddr, and a Step that fetches it
\* changes only CPUState.
C25_NegativeWordsRefused ==
  [][/\ (last'.op = "getInstruction" /\ last'.addr \in 0..49 /\ mem[last'.addr] < 0) =>
          last'.cs \in {CPUbadinst, CPUbadaddr}
     /\ (last'.op = "Step" /\ pc \in 0..49 /\ mem[pc] < 0) =>
          /\ mem[pc] \in -99999..-1
          /\ last'.cs \in {CPUbadinst, CPUbadaddr}
          /\ state' = last'.cs
          /\ pc' = pc /\ ac' = ac /\ mq' = mq /\ mem' = mem
          /\ last'.ins = <<>> /\ last'.outs = <<>>]_vars

\* A Step has fetched a negative word and refused it.
C25_Witness ==
  /\ last.op = "Step" /\ last.addr \in 0..49 /\ pc = last.addr
  /\ mem[pc] < 0
  /\ last.cs = CPUbadaddr /\ state = CPUbadaddr

\* C26: a Step changes at most one memory cell, and only when it executes
\* PAC, PMQ or GET, the cell then being the one at the decoded target, which
\* is in [0,50); every other instruction and every failed decode leaves all
\* 50 cells unchanged.
C26_StepMemoryFrame ==
  [][last'.op = "Step" =>
       LET writes == last'.cs = CPUok /\ last'.inst.op \in {"PAC", "PMQ", "GET"}
           changed == {a \in 0..49 : mem'[a] # mem[a]}
       IN /\ DOMAIN mem' = 0..49
          /\ Cardinality(changed) <= 1
          /\ writes => (last'.inst.addr \in 0..49 /\ changed \subseteq {last'.inst.addr})
          /\ ~writes => changed = {}]_vars

\* A PMQ whose target is its own address has replaced its own word with MQ.
C26_Witness ==
  /\ last.op = "Step" /\ last.cs = CPUok
  /\ last.inst = [op |-> "PMQ", addr |-> 3] /\ last.addr = 3
  /\ mem[3] = mq /\ mem[3] # 13003

====
